---------------------------- MODULE Spec2Model ----------------------------
(***************************************************************************)
(* signal-tui: the ingestion thread, the event channel, the session state  *)
(* machine (App and its key handlers) and the scrollback store.            *)
(*                                                                         *)
(* Strings whose characters matter (display names, addresses, the input    *)
(* buffer, message bodies) are sequences of character codes.  Strings that *)
(* are only compared for equality (status text, modes) are TLA+ strings.   *)
(* Option<T> is a sequence of length 0 (None) or 1 (Some).                 *)
(* A conversation key "contact:<addr>" / "group:<id>" / "unknown:unknown"  *)
(* is the record [ns, id] of its namespace and the text after the colon.   *)
(***************************************************************************)
EXTENDS Integers, Sequences, FiniteSets, TLC

(* ------------------------------ bounds --------------------------------- *)

\* Longest raw output (items) of one receive call.
MaxBatch == 2

\* Calls of the external tool that return items, fail or send (receive
\* calls of the ingestion thread and of force-sync, and send calls);
\* receive calls that return nothing are not limited.
MaxCalls == 2

(* ------------------------------ strings -------------------------------- *)

None == << >>

Some(x) == << x >>

IsSome(o) == Len(o) = 1

\* char codes
ChSpace == 32

ChPlus == 43

\* ":"
ChColon == 58

\* "+1111111": a number not in the contact list at startup
AddrNew == << 43, 49, 49, 49, 49, 49, 49, 49 >>

\* "+2222222": Bob's number
AddrBob == << 43, 50, 50, 50, 50, 50, 50, 50 >>

\* "G"
GroupId == << 71 >>

\* "Bob"
NameBob == << 66, 111, 98 >>

\* "hi"
BodyHi == << 104, 105 >>

\* "unknown"
StrUnknown == << 117, 110, 107, 110, 111, 119, 110 >>

\* "group "
StrGroupSp == << 103, 114, 111, 117, 112, 32 >>

\* str::to_lowercase on ASCII text
to_lowercase(s) ==
    [i \in 1..Len(s) |-> IF s[i] >= 65 /\ s[i] <= 90 THEN s[i] + 32 ELSE s[i]]

\* a < b in the lexicographic (byte) order of Ord for String
StrLess(a, b) ==
    \E i \in 1..(Len(b)) :
        /\ \A j \in 1..(i - 1) : j <= Len(a) /\ a[j] = b[j]
        /\ \/ i = Len(a) + 1
           \/ i <= Len(a) /\ a[i] < b[i]

\* str::trim: strip leading and trailing whitespace
RECURSIVE trim_start(_)
trim_start(s) ==
    IF s # << >> /\ Head(s) = ChSpace THEN trim_start(Tail(s)) ELSE s

RECURSIVE trim_end(_)
trim_end(s) ==
    IF s # << >> /\ s[Len(s)] = ChSpace
    THEN trim_end(SubSeq(s, 1, Len(s) - 1))
    ELSE s

trim(s) == trim_end(trim_start(s))

starts_with(s, c) == s # << >> /\ Head(s) = c

\* String::pop
pop(s) == IF s = << >> THEN s ELSE SubSeq(s, 1, Len(s) - 1)

(* -------------------------- conversation keys -------------------------- *)

\* format!("contact:{number}")
ContactKey(number) == [ns |-> "contact", id |-> number]

\* format!("group:{gid}")
GroupKey(gid) == [ns |-> "group", id |-> gid]

\* "unknown:unknown"
SentinelKey == [ns |-> "unknown", id |-> StrUnknown]

\* key.strip_prefix(prefix)
strip_prefix(key, ns) == IF key.ns = ns THEN Some(key.id) ELSE None

\* the bytes of the key's text
NsBytes(ns) ==
    CASE ns = "contact" -> << 99, 111, 110, 116, 97, 99, 116 >>
      [] ns = "group" -> << 103, 114, 111, 117, 112 >>
      [] OTHER -> StrUnknown

KeyBytes(key) == NsBytes(key.ns) \o << ChColon >> \o key.id

(* -------------------------- protocol adapter --------------------------- *)

\* One JSON item of a receive call's output.  obj: the item is a JSON
\* object.  envelope: Option of [timestamp, sourceNumber, source,
\* dataMessage].  timestamp, dataMessage: the top-level fields.  A
\* dataMessage is [message, groupId, group_id] (the last two under
\* groupInfo), each an Option.
DataMessage(body, gid) == [message |-> body, groupId |-> gid, group_id |-> None]

EnvelopeItem(ts, src, dm) ==
    [obj |-> TRUE,
     envelope |-> Some([timestamp |-> ts, sourceNumber |-> src,
                        source |-> None, dataMessage |-> dm]),
     timestamp |-> None,
     dataMessage |-> None]

or_else(a, b) == IF IsSome(a) THEN a ELSE b

\* a key that puts the sender before the group
conversation_key_sender_first(group_id, source_number) ==
    IF IsSome(source_number) THEN ContactKey(source_number[1])
    ELSE IF IsSome(group_id) THEN GroupKey(group_id[1])
    ELSE SentinelKey

\* let conversation_key = if let Some(gid) .. else if let Some(src) .. else
conversation_key_of(group_id, source_number) ==
    IF IsSome(group_id) THEN GroupKey(group_id[1])
    ELSE IF IsSome(source_number) THEN ContactKey(source_number[1])
    ELSE SentinelKey

\* an adapter that lets empty bodies through
skip_nothing(body, msg) == Some(msg)

\* if body.is_empty() { continue; } .. out.push(msg)
skip_empty(body, msg) == IF body = << >> THEN None ELSE Some(msg)

\* the IncomingMessage of one item, or None when the item is skipped
parse_item(item) ==
    IF ~item.obj THEN None
    ELSE
    LET env_obj == item.envelope
        timestamp_ms ==
            or_else(IF IsSome(env_obj) THEN env_obj[1].timestamp ELSE None,
                    item.timestamp)
        source_number ==
            IF IsSome(env_obj)
            THEN or_else(env_obj[1].sourceNumber, env_obj[1].source)
            ELSE None
        data_msg ==
            or_else(IF IsSome(env_obj) THEN env_obj[1].dataMessage ELSE None,
                    item.dataMessage)
        body ==
            IF IsSome(data_msg) /\ IsSome(data_msg[1].message)
            THEN data_msg[1].message[1]
            ELSE << >>
        group_id ==
            IF IsSome(data_msg)
            THEN or_else(data_msg[1].groupId, data_msg[1].group_id)
            ELSE None
        conversation_key == conversation_key_of(group_id, source_number)
    IN  skip_empty(body, [conversation_key |-> conversation_key,
                          source |-> source_number,
                          timestamp_ms |-> timestamp_ms,
                          body |-> body])

\* for item in items: the messages pushed, in the order of the items
RECURSIVE parse_items(_)
parse_items(items) ==
    IF items = << >> THEN << >>
    ELSE parse_item(Head(items)) \o parse_items(Tail(items))

\* a JSON array of items
Array(items) == [obj |-> FALSE, array |-> items]

IsArray(v) == "array" \in DOMAIN v

\* parse_receive_json: an array gives its items, any other value is the
\* one item
parse_receive_json(v) ==
    parse_items(IF IsArray(v) THEN v.array ELSE << v >>)

\* A line of the tool's standard output: a JSON value on one line, the
\* first and the last line of a JSON value printed over two lines, white
\* space only, or text that is not JSON.
ValueLine(v) == << "value", v >>

HeadLine(v) == << "head", v >>

TailLine == << "tail" >>

BlankLine == << "blank" >>

GarbageLine == << "garbage" >>

\* what the tool left behind: its exit status and its standard output
ToolOutput(success, ls) == [success |-> success, stdout |-> ls]

\* the tool printing nothing
EmptyOutput == ToolOutput(TRUE, << >>)

\* s.lines().map(str::trim).filter(|l| !l.is_empty())
non_empty_lines(ls) == SelectSeq(ls, LAMBDA l : l # BlankLine)

\* serde_json::from_str::<Value>(s) on the whole trimmed output
whole_value(ls) ==
    IF Len(ls) = 1 /\ ls[1][1] = "value" THEN Some(ls[1][2])
    ELSE IF Len(ls) = 2 /\ ls[1][1] = "head" /\ ls[2] = TailLine THEN Some(ls[1][2])
    ELSE None

\* a run_json that drops the lines it cannot parse
run_json_skips_bad_lines(out) ==
    LET ls == SelectSeq(out.stdout, LAMBDA l : l[1] = "value")
    IN  IF ~out.success THEN [ok |-> FALSE, value |-> None]
        ELSE IF ls = << >> THEN [ok |-> TRUE, value |-> None]
        ELSE [ok |-> TRUE,
              value |-> Some(Array([i \in 1..Len(ls) |-> ls[i][2]]))]

\* run_json: [ok, value], value the Option<Value> of an Ok
run_json(out) ==
    LET ls == non_empty_lines(out.stdout)
    IN  IF ~out.success THEN [ok |-> FALSE, value |-> None]
        ELSE IF ls = << >> THEN [ok |-> TRUE, value |-> None]
        ELSE IF IsSome(whole_value(ls)) THEN [ok |-> TRUE, value |-> whole_value(ls)]
        ELSE IF \E i \in 1..Len(ls) : ls[i][1] # "value"
             THEN [ok |-> FALSE, value |-> None]
        ELSE [ok |-> TRUE,
              value |-> Some(Array([i \in 1..Len(ls) |-> ls[i][2]]))]

\* SignalCli::receive_once on the tool's output: [ok, msgs]
receive_once(out) ==
    LET v == run_json(out)
    IN  IF ~v.ok THEN [ok |-> FALSE, msgs |-> << >>]
        ELSE IF v.value = None THEN [ok |-> TRUE, msgs |-> << >>]
        ELSE [ok |-> TRUE, msgs |-> parse_receive_json(v.value[1])]

(* --------------------------- scrollback store -------------------------- *)

\* hex_encode: two hex digits (their values) per byte
RECURSIVE hex_encode(_)
hex_encode(bytes) ==
    IF bytes = << >> THEN << >>
    ELSE << Head(bytes) \div 16, Head(bytes) % 16 >> \o hex_encode(Tail(bytes))

\* the file of a conversation key: "<hex>.jsonl" in the scrollback dir
path_for(conversation_key) == hex_encode(KeyBytes(conversation_key))

\* A file is a sequence of chunks of bytes: the text of a serialized
\* record, a newline, a run of blanks, a text that is no record, or bytes
\* that are not UTF-8.
Newline == << "nl" >>

BlankChunk == << "blank" >>

TextChunk == << "text" >>

BytesChunk == << "bytes" >>

\* a serializer that writes the string as it is
escape_nothing(s) == s

\* serde_json's string escaping: newline, quote and backslash
RECURSIVE escape(_)
escape(s) ==
    IF s = << >> THEN << >>
    ELSE (CASE Head(s) = 10 -> << 92, 110 >>
            [] Head(s) = 34 -> << 92, 34 >>
            [] Head(s) = 92 -> << 92, 92 >>
            [] OTHER -> << Head(s) >>)
         \o escape(Tail(s))

\* the string an escaped text stands for
RECURSIVE unescape(_)
unescape(s) ==
    IF s = << >> THEN << >>
    ELSE IF Head(s) = 92 /\ Len(s) >= 2
    THEN << (IF s[2] = 110 THEN 10 ELSE s[2]) >> \o unescape(Tail(Tail(s)))
    ELSE << Head(s) >> \o unescape(Tail(s))

\* serde_json::to_string(rec): the JSON text of a record
to_string(rec) == << "json", rec.ts_ms, rec.dir, rec.who, escape(rec.body) >>

\* whether a chunk of JSON text holds a raw newline byte
HasRawNewline(chunk) ==
    chunk[1] = "json" /\ \E i \in 1..Len(chunk[5]) : chunk[5][i] = 10

\* BufRead::lines: the file cut at every newline byte; a last line without
\* its newline counts, nothing after the last newline does not
RECURSIVE SplitLines(_, _)
SplitLines(file, cur) ==
    IF file = << >> THEN (IF cur = << >> THEN << >> ELSE << cur >>)
    ELSE IF Head(file) = Newline
    THEN << cur >> \o SplitLines(Tail(file), << >>)
    ELSE IF HasRawNewline(Head(file))
    THEN << cur \o << TextChunk >> >> \o SplitLines(Tail(file), << TextChunk >>)
    ELSE SplitLines(Tail(file), Append(cur, Head(file)))

lines(file) == SplitLines(file, << >>)

\* whether a line is valid UTF-8
IsUtf8(line) == \A i \in 1..Len(line) : line[i] # BytesChunk

\* str::trim on a line
RECURSIVE trim_line_start(_)
trim_line_start(line) ==
    IF line # << >> /\ Head(line) = BlankChunk THEN trim_line_start(Tail(line))
    ELSE line

RECURSIVE trim_line_end(_)
trim_line_end(line) ==
    IF line # << >> /\ line[Len(line)] = BlankChunk
    THEN trim_line_end(SubSeq(line, 1, Len(line) - 1))
    ELSE line

trim_line(line) == trim_line_end(trim_line_start(line))

\* serde_json::from_str::<ScrollbackRecord>(line): Some(rec), or None when
\* the line is not exactly one record
from_str(line) ==
    IF Len(line) = 1 /\ line[1][1] = "json"
    THEN Some([ts_ms |-> line[1][2], dir |-> line[1][3], who |-> line[1][4],
               body |-> unescape(line[1][5])])
    ELSE None

FileExists(disk, path) == path \in DOMAIN disk

\* an open that truncates the file
open_truncate(disk, path) ==
    [p \in (DOMAIN disk) \cup {path} |-> IF p = path THEN << >> ELSE disk[p]]

\* OpenOptions::new().create(true).append(true).open(path)
open_append(disk, path) ==
    IF FileExists(disk, path) THEN disk ELSE disk @@ (path :> << >>)

\* f.write_all(chunk) on a file opened for appending
write_all(disk, path, chunk) == [disk EXCEPT ![path] = Append(@, chunk)]

\* scrollback::append by one caller with no other writer: the files after
\* the call.  ok is whether the filesystem lets the open and the writes
\* succeed; on failure nothing is written.
append(disk, ok, conversation_key, rec) ==
    LET path == path_for(conversation_key)
        line == to_string(rec)
    IN  IF ~ok THEN disk
        ELSE write_all(write_all(open_append(disk, path), path, line),
                       path, Newline)

\* the loop over r.lines(): Err when a line cannot be read, else the
\* records of the lines that parse
RECURSIVE ParseLines(_, _)
ParseLines(ls, buf) ==
    IF ls = << >> THEN [ok |-> TRUE, recs |-> buf]
    ELSE IF ~IsUtf8(Head(ls)) THEN [ok |-> FALSE, recs |-> << >>]
    ELSE LET line == trim_line(Head(ls))
         IN  IF line = << >> THEN ParseLines(Tail(ls), buf)
             ELSE ParseLines(Tail(ls), buf \o from_str(line))

\* scrollback::load_tail: Ok(recs) or Err
load_tail(disk, conversation_key, limit) ==
    LET path == path_for(conversation_key)
    IN  IF ~FileExists(disk, path) THEN [ok |-> TRUE, recs |-> << >>]
        ELSE LET r == ParseLines(lines(disk[path]), << >>)
                 buf == r.recs
             IN  IF r.ok /\ Len(buf) > limit
                 THEN [ok |-> TRUE,
                       recs |-> SubSeq(buf, Len(buf) - limit + 1, Len(buf))]
                 ELSE r

(* ------------------------------ targets -------------------------------- *)

Target(key, kind, addr, display) ==
    [conversation_key |-> key, kind |-> kind, addr |-> addr, display |-> display]

\* the comparator of every sort_by call: case-insensitive display name
DisplayLess(a, b) == StrLess(to_lowercase(a.display), to_lowercase(b.display))

\* t put into the sorted list s behind every element that is not greater
RECURSIVE InsertSorted(_, _)
InsertSorted(s, t) ==
    IF s = << >> THEN << t >>
    ELSE IF DisplayLess(t, s[Len(s)])
         THEN Append(InsertSorted(SubSeq(s, 1, Len(s) - 1), t), s[Len(s)])
         ELSE Append(s, t)

\* a list that is never sorted
sort_nothing(s) == s

\* Vec::sort_by (a stable sort) with the display comparator
RECURSIVE sort_targets(_)
sort_targets(s) ==
    IF s = << >> THEN << >>
    ELSE InsertSorted(sort_targets(SubSeq(s, 1, Len(s) - 1)), s[Len(s)])

\* a list in which no key is ever found
HasKeyNever(targets, key) == FALSE

\* app.targets.iter().any(|t| t.conversation_key == key)
HasKey(targets, key) ==
    \E i \in 1..Len(targets) : targets[i].conversation_key = key

\* App::selected_target: Option of the Target at index selected (0-based)
selected_target(targets, selected) ==
    IF selected < Len(targets) THEN Some(targets[selected + 1]) ELSE None

\* Option of the selected Target's conversation key
selected_key_of(targets, selected) ==
    IF selected < Len(targets)
    THEN Some(targets[selected + 1].conversation_key)
    ELSE None

(* ------------------------- maps of the App ----------------------------- *)

\* *map.entry(key).or_insert(0) += 1
Increment(map, key) ==
    IF key \in DOMAIN map THEN [map EXCEPT ![key] = @ + 1] ELSE map @@ (key :> 1)

\* map.remove(key)
Remove(map, key) == [k \in (DOMAIN map) \ {key} |-> map[k]]

\* map.entry(key).or_default().push(msg)
Push(map, key, msg) ==
    IF key \in DOMAIN map
    THEN [map EXCEPT ![key] = Append(@, msg)]
    ELSE map @@ (key :> << msg >>)

\* *map.get(key).unwrap_or(&0)
UnreadOf(map, key) == IF key \in DOMAIN map THEN map[key] ELSE 0

BufferOf(map, key) == IF key \in DOMAIN map THEN map[key] ELSE << >>

ChatMessage(ts, dir, who, body) ==
    [ts_ms |-> ts, dir |-> dir, who |-> who, body |-> body]

ScrollbackRecord(ts, dir, who, body) ==
    [ts_ms |-> ts, dir |-> dir, who |-> who, body |-> body]

(* --------------------------- ingest_incoming --------------------------- *)

\* a loop body that pushes before it appends
IngestOpsPushFirst(m, save) ==
    << [op |-> "push", key |-> m.conversation_key,
        msg |-> ChatMessage(m.timestamp_ms, "In", m.source, m.body)] >>
    \o (IF save
        THEN << [op |-> "append", key |-> m.conversation_key,
                 rec |-> ScrollbackRecord(m.timestamp_ms, "in", m.source, m.body)] >>
        ELSE << >>)

\* What the loop body does with the stores for one message, in the order
\* of the statements: the scrollback append (when save_scrollback), then
\* the push onto the in-memory buffer.
IngestOps(m, save) ==
    (IF save
     THEN << [op |-> "append", key |-> m.conversation_key,
              rec |-> ScrollbackRecord(m.timestamp_ms, "in", m.source, m.body)] >>
     ELSE << >>)
    \o << [op |-> "push", key |-> m.conversation_key,
           msg |-> ChatMessage(m.timestamp_ms, "In", m.source, m.body)] >>

\* a session that drops the message whose append failed
ApplyOpNeedsAppend(st, o, ok) ==
    IF o.op = "append"
    THEN [st EXCEPT !.disk = append(st.disk, ok, o.key, o.rec),
                    !.effects = Append(@, o)]
    ELSE IF ok
    THEN [st EXCEPT !.messages = Push(st.messages, o.key, o.msg),
                    !.effects = Append(@, o)]
    ELSE st

\* one store operation carried out on the session st
ApplyOp(st, o, ok) ==
    IF o.op = "append"
    THEN [st EXCEPT !.disk = append(st.disk, ok, o.key, o.rec),
                    !.effects = Append(@, o)]
    ELSE [st EXCEPT !.messages = Push(st.messages, o.key, o.msg),
                    !.effects = Append(@, o)]

RECURSIVE ApplyOps(_, _, _)
ApplyOps(st, ops, ok) ==
    IF ops = << >> THEN st
    ELSE ApplyOps(ApplyOp(st, Head(ops), ok), Tail(ops), ok)

\* the Target synthesized for an unknown key, or None (the `continue`)
NewTarget(key) ==
    LET g == strip_prefix(key, "group")
        c == strip_prefix(key, "contact")
    IN  IF IsSome(g) THEN Some(Target(key, "Group", g[1], StrGroupSp \o g[1]))
        ELSE IF IsSome(c) THEN Some(Target(key, "Contact", c[1], c[1]))
        ELSE None

\* the loop body for message m
IngestMsg(st, m, selected_key, save, ok) ==
    LET key == m.conversation_key
        known == HasKey(st.targets, key)
        nt == NewTarget(key)
    IN  IF ~known /\ ~IsSome(nt) THEN st
        ELSE LET st1 == [st EXCEPT
                            !.targets = IF known THEN @ ELSE Append(@, nt[1]),
                            !.unread = IF selected_key # Some(key)
                                       THEN Increment(@, key) ELSE @]
             IN  ApplyOps(st1, IngestOps(m, save), ok)

RECURSIVE IngestLoop(_, _, _, _, _)
IngestLoop(st, msgs, selected_key, save, ok) ==
    IF msgs = << >> THEN st
    ELSE IngestLoop(IngestMsg(st, Head(msgs), selected_key, save, ok),
                    Tail(msgs), selected_key, save, ok)

\* the selection index after the final sort
ClampSelected(selected, targets) ==
    IF selected >= Len(targets) /\ targets # << >>
    THEN Len(targets) - 1
    ELSE selected

\* ingest_incoming(app, msgs) on st = [targets, selected, unread, messages,
\* disk, effects]
ingest_incoming(st, msgs, save, ok) ==
    LET selected_key == selected_key_of(st.targets, st.selected)
        st1 == IngestLoop(st, msgs, selected_key, save, ok)
        sorted == sort_targets(st1.targets)
    IN  [st1 EXCEPT !.targets = sorted,
                    !.selected = ClampSelected(st1.selected, sorted)]

(* ------------------------------ the state ------------------------------ *)

VARIABLES
    \* struct App
    mode, targets, selected, pending_g, unread, input, status, messages,
    \* cfg.save_scrollback; whether the filesystem lets appends succeed;
    \* the scrollback directory: file name -> the chunks written to it
    save_scrollback, fs_ok, disk,
    \* run_tui: the stop flag, the mpsc channel, where the ingestion thread
    \* and the consumer loop are, the result of the thread's receive call
    stop, chan, bg_pc, ui_pc, bg_res,
    \* the calls of the external tool so far that returned items, failed
    \* or sent (the timestamp the next items carry)
    clock,
    \* the calls of send_message_to_number / send_message_to_group so far
    outbox,
    \* history: the store operations of the handler that ran last, in order
    effects,
    \* history: the conversation key selected when Insert mode was entered
    compose_key,
    \* history: the non-empty batches the ingestion thread's receive calls
    \* returned, in completion order, and the batches the consumer took
    \* off the channel, in order
    bg_log, ingest_log,
    \* history: the receive calls and the sleeps the ingestion thread has
    \* completed since stop was set
    after_stop,
    \* callers of the scrollback module on their own: the result of
    \* load_tail when it was the last call, and the callers that are inside
    \* scrollback::append, each with its position, key and record
    loaded, wr,
    \* history: the files at startup, and the records appended since, by
    \* conversation key, in the order the calls returned
    disk0, written,
    \* the adapter on its own: the output the tool leaves for the next
    \* receive call, and the result of that call once it has returned
    tool_out, parsed

app_vars == << mode, targets, selected, pending_g, unread, input, status, messages >>

store_vars == << disk, outbox, effects, compose_key >>

cfg_vars == << save_scrollback, fs_ok >>

io_vars == << loaded, wr, disk0, written, tool_out, parsed >>

bg_vars == << bg_pc, bg_res, bg_log, after_stop >>

vars == << mode, targets, selected, pending_g, unread, input, status, messages,
           save_scrollback, fs_ok, disk, stop, chan, bg_pc, ui_pc, bg_res, clock,
           outbox, effects, compose_key, bg_log, ingest_log, after_stop,
           loaded, wr, disk0, written, tool_out, parsed >>

\* "+0000000": the account in use
Account == << 43, 48, 48, 48, 48, 48, 48, 48 >>

\* the session fields the handlers' helpers work on
Session ==
    [targets |-> targets, selected |-> selected, unread |-> unread,
     messages |-> messages, disk |-> disk, effects |-> << >>]

(* ------------------------------- startup ------------------------------- *)

\* What list_contacts and list_groups return at startup.
StartupListings ==
    { [contacts |-> << >>, groups |-> << >>],
      [contacts |-> << [number |-> AddrBob, name |-> Some(NameBob)] >>,
       groups |-> << >>] }

\* "#x": a group name that sorts before every number
NameHash == << 35, 120 >>

\* Listings in which a group's id reads like a number: Bob, and the group
\* "#x" whose id is "+1111111".
AddListings ==
    StartupListings \cup
    { [contacts |-> << [number |-> AddrBob, name |-> Some(NameBob)] >>,
       groups |-> << [id |-> AddrNew, name |-> Some(NameHash)] >>] }

\* scrollback files left by earlier runs
InitialDisks == { << >> }

\* cfg.scrollback_load_limit: the lower end of its clamp
LoadLimit == 50

ContactTarget(c) ==
    Target(ContactKey(c.number), "Contact", c.number,
           IF IsSome(c.name) THEN c.name[1] ELSE c.number)

GroupTarget(g) ==
    Target(GroupKey(g.id), "Group", g.id,
           IF IsSome(g.name) THEN g.name[1] ELSE StrGroupSp \o g.id)

\* main: the Target list built from the listings and sorted
startup_targets(l) ==
    sort_targets([i \in 1..Len(l.contacts) |-> ContactTarget(l.contacts[i])]
                 \o [i \in 1..Len(l.groups) |-> GroupTarget(l.groups[i])])

\* v.push(..) for each loaded record, v the buffer of key
Push_all(msgs, key, ms) ==
    IF key \in DOMAIN msgs
    THEN [msgs EXCEPT ![key] = @ \o ms]
    ELSE msgs @@ (key :> ms)

LoadedMessage(r) ==
    ChatMessage(r.ts_ms, IF r.dir = "out" THEN "Out" ELSE "In", r.who, r.body)

\* load_initial_scrollback: the message buffers after the tail loads; the
\* first load that fails ends the loop (the `?`), and main drops the error
RECURSIVE load_initial_scrollback(_, _, _)
load_initial_scrollback(msgs, ts, d) ==
    IF ts = << >> THEN msgs
    ELSE LET key == Head(ts).conversation_key
             res == load_tail(d, key, LoadLimit)
             recs == res.recs
             msgs1 == IF recs = << >> THEN msgs
                      ELSE Push_all(msgs, key,
                                    [i \in 1..Len(recs) |-> LoadedMessage(recs[i])])
         IN  IF ~res.ok THEN msgs
             ELSE load_initial_scrollback(msgs1, Tail(ts), d)

\* no caller is inside scrollback::append
NoWriters == [c \in {1, 2} |-> [pc |-> "idle"]]

\* the state run_tui starts in, the listings being one of ls and the
\* scrollback directory one of disks
InitBody(ls, disks) ==
    /\ \E l \in ls : targets = startup_targets(l)
    /\ save_scrollback \in BOOLEAN
    /\ fs_ok \in BOOLEAN
    /\ (~save_scrollback => fs_ok)
    /\ disk \in disks
    /\ messages = load_initial_scrollback(<< >>, targets, disk)
    /\ disk0 = disk
    /\ written = << >>
    /\ loaded = None
    /\ wr = NoWriters
    /\ mode = "Normal"
    /\ selected = 0
    /\ pending_g = FALSE
    /\ unread = << >>
    /\ input = << >>
    /\ status = << "using account" >>
    /\ stop = FALSE
    /\ chan = << >>
    /\ bg_pc = "check"
    /\ bg_res = [ok |-> TRUE, msgs |-> << >>]
    /\ ui_pc = "drain"
    /\ clock = 0
    /\ outbox = << >>
    /\ effects = << >>
    /\ compose_key = None
    /\ bg_log = << >>
    /\ ingest_log = << >>
    /\ after_stop = [recv |-> 0, sleep |-> 0]
    /\ parsed = None

InitOf(ls, disks) == InitBody(ls, disks) /\ tool_out = EmptyOutput

InitFrom(ls) == InitOf(ls, InitialDisks)

Init == InitFrom(StartupListings)

(* ------------------------ the external tool ---------------------------- *)

\* The items a receive call may return, item i of the call at time ts
\* stamped ts * 10 + i: a text from a number not in the list, one from Bob,
\* one in group G, one with neither sender nor group, and a receipt (no
\* dataMessage).
ItemKinds == { "new", "bob", "group", "anon", "receipt" }

Item(kind, stamp) ==
    CASE kind = "new" ->
           EnvelopeItem(Some(stamp), Some(AddrNew), Some(DataMessage(Some(BodyHi), None)))
      [] kind = "bob" ->
           EnvelopeItem(Some(stamp), Some(AddrBob), Some(DataMessage(Some(BodyHi), None)))
      [] kind = "group" ->
           EnvelopeItem(Some(stamp), Some(AddrBob),
                        Some(DataMessage(Some(BodyHi), Some(GroupId))))
      [] kind = "anon" ->
           EnvelopeItem(Some(stamp), None, Some(DataMessage(Some(BodyHi), None)))
      [] OTHER ->
           EnvelopeItem(Some(stamp), Some(AddrNew), None)

\* the non-empty outputs of a receive call at time ts: up to MaxBatch
\* items of one kind
RawOutputs(ts) ==
    { [i \in 1..n |-> Item(kind, ts * 10 + i)] : kind \in ItemKinds, n \in 1..MaxBatch }

\* the tool printing the items raw, one to a line
Stdout(raw) == ToolOutput(TRUE, [i \in 1..Len(raw) |-> ValueLine(raw[i])])

\* the tool failing: a non-zero exit status, or output that is not JSON
FailedOutputs == { ToolOutput(FALSE, << >>), ToolOutput(TRUE, << GarbageLine >>) }

(* ------------------------- the ingestion thread ------------------------ *)

Received(msgs) == [type |-> "Received", msgs |-> msgs]

ErrorEvent == [type |-> "Error"]

\* a loop that does not test the flag
BgCheckIgnoresStop ==
    /\ bg_pc = "check"
    /\ bg_pc' = "recv"
    /\ UNCHANGED << app_vars, store_vars, cfg_vars, io_vars, stop, chan, ui_pc, clock,
                    bg_res, bg_log, ingest_log, after_stop >>

\* while !stop2.load(..): the loop test
BgCheck ==
    /\ bg_pc = "check"
    /\ bg_pc' = IF stop THEN "exited" ELSE "recv"
    /\ UNCHANGED << app_vars, store_vars, cfg_vars, io_vars, stop, chan, ui_pc, clock,
                    bg_res, bg_log, ingest_log, after_stop >>

\* no receive call's result is being matched
NoResult == [ok |-> TRUE, msgs |-> << >>]

\* receive_once returned, the tool's output being out
BgReturned(out) ==
    LET res == receive_once(out)
    IN  /\ bg_res' = res
        /\ bg_log' = IF res.msgs # << >> THEN Append(bg_log, res.msgs) ELSE bg_log

\* signal2.receive_once(&account, 1) returns: Ok with no output, Ok with
\* some items, or Err
BgRecv ==
    /\ bg_pc = "recv"
    /\ bg_pc' = "match"
    /\ \/ BgReturned(EmptyOutput) /\ clock' = clock
       \/ /\ clock < MaxCalls
          /\ clock' = clock + 1
          /\ \E raw \in RawOutputs(clock + 1) : BgReturned(Stdout(raw))
       \/ /\ clock < MaxCalls
          /\ clock' = clock + 1
          /\ \E out \in FailedOutputs : BgReturned(out)
    /\ after_stop' = IF stop THEN [after_stop EXCEPT !.recv = @ + 1]
                     ELSE after_stop
    /\ UNCHANGED << app_vars, store_vars, cfg_vars, io_vars, stop, chan, ui_pc, ingest_log >>

\* a channel that hands out the newest event first
BgSendFront(ch, msgs) == IF msgs # << >> THEN << Received(msgs) >> \o ch ELSE ch

\* the channel after tx.send of a non-empty batch
BgSend(ch, msgs) == IF msgs # << >> THEN Append(ch, Received(msgs)) ELSE ch

\* a thread that counts the unread messages itself
BgMatchOkCounts ==
    /\ bg_pc = "match"
    /\ bg_res.ok
    /\ chan' = BgSend(chan, bg_res.msgs)
    /\ bg_pc' = "check"
    /\ bg_res' = NoResult
    /\ unread' = IF bg_res.msgs # << >>
                 THEN Increment(unread, bg_res.msgs[1].conversation_key)
                 ELSE unread
    /\ UNCHANGED << mode, targets, selected, pending_g, input, status, messages,
                    store_vars, cfg_vars, io_vars, stop, ui_pc, clock, bg_log,
                    ingest_log, after_stop >>

\* the arm Ok(msgs)
BgMatchOk ==
    /\ bg_pc = "match"
    /\ bg_res.ok
    /\ chan' = BgSend(chan, bg_res.msgs)
    /\ bg_pc' = "check"
    /\ bg_res' = NoResult
    /\ UNCHANGED << app_vars, store_vars, cfg_vars, io_vars, stop, ui_pc, clock, bg_log,
                    ingest_log, after_stop >>

\* a thread that a failed receive call ends
BgMatchErrExits ==
    /\ bg_pc = "match"
    /\ ~bg_res.ok
    /\ chan' = Append(chan, ErrorEvent)
    /\ bg_pc' = "exited"
    /\ bg_res' = NoResult
    /\ UNCHANGED << app_vars, store_vars, cfg_vars, io_vars, stop, ui_pc, clock, bg_log,
                    ingest_log, after_stop >>

\* the arm Err(e): the error event, then the sleep
BgMatchErr ==
    /\ bg_pc = "match"
    /\ ~bg_res.ok
    /\ chan' = Append(chan, ErrorEvent)
    /\ bg_pc' = "sleep"
    /\ bg_res' = NoResult
    /\ UNCHANGED << app_vars, store_vars, cfg_vars, io_vars, stop, ui_pc, clock, bg_log,
                    ingest_log, after_stop >>

\* thread::sleep(2 s) is over
BgSleepDone ==
    /\ bg_pc = "sleep"
    /\ bg_pc' = "check"
    /\ after_stop' = IF stop THEN [after_stop EXCEPT !.sleep = @ + 1]
                     ELSE after_stop
    /\ UNCHANGED << app_vars, store_vars, cfg_vars, io_vars, stop, chan, ui_pc, clock,
                    bg_res, bg_log, ingest_log >>

(* --------------------------- the consumer loop ------------------------- *)

\* the App fields after ingest_incoming
Ingest(msgs) ==
    LET st == ingest_incoming(Session, msgs, save_scrollback, fs_ok)
    IN  /\ targets' = st.targets
        /\ selected' = st.selected
        /\ unread' = st.unread
        /\ messages' = st.messages
        /\ disk' = st.disk
        /\ effects' = st.effects

\* while let Ok(ev) = rx.try_recv(): a Received event
DrainReceived ==
    /\ ui_pc = "drain"
    /\ chan # << >>
    /\ Head(chan).type = "Received"
    /\ chan' = Tail(chan)
    /\ Ingest(Head(chan).msgs)
    /\ ingest_log' = Append(ingest_log, Head(chan).msgs)
    /\ UNCHANGED << mode, pending_g, input, status, cfg_vars, io_vars, stop, bg_vars,
                    ui_pc, clock, outbox, compose_key >>

\* an error event that throws the session back into Normal mode
DrainErrorResetsMode ==
    /\ ui_pc = "drain"
    /\ chan # << >>
    /\ Head(chan).type = "Error"
    /\ chan' = Tail(chan)
    /\ status' = << "receive error" >>
    /\ mode' = "Normal"
    /\ input' = << >>
    /\ UNCHANGED << targets, selected, pending_g, unread, messages,
                    cfg_vars, io_vars, disk, stop, bg_vars, ui_pc, clock, outbox,
                    effects, compose_key, ingest_log >>

\* while let Ok(ev) = rx.try_recv(): an Error event
DrainError ==
    /\ ui_pc = "drain"
    /\ chan # << >>
    /\ Head(chan).type = "Error"
    /\ chan' = Tail(chan)
    /\ status' = << "receive error" >>
    /\ effects' = << >>
    /\ UNCHANGED << mode, targets, selected, pending_g, unread, input, messages,
                    cfg_vars, io_vars, disk, stop, bg_vars, ui_pc, clock, outbox,
                    compose_key, ingest_log >>

\* try_recv finds the channel empty: the frame is drawn, the poll starts
DrainEmpty ==
    /\ ui_pc = "drain"
    /\ chan = << >>
    /\ ui_pc' = "poll"
    /\ UNCHANGED << app_vars, store_vars, cfg_vars, io_vars, stop, chan, bg_vars, clock,
                    ingest_log >>

\* event::poll times out with no key
PollTimeout ==
    /\ ui_pc = "poll"
    /\ ui_pc' = "drain"
    /\ UNCHANGED << app_vars, store_vars, cfg_vars, io_vars, stop, chan, bg_vars, clock,
                    ingest_log >>

\* what every key handler leaves alone, and the loop going round
KeyFrame ==
    /\ ui_pc' = "drain"
    /\ UNCHANGED << cfg_vars, io_vars, stop, chan, bg_vars, ingest_log >>

\* handle_key returned true: the loop breaks, stop.store(true)
Quit ==
    /\ ui_pc' = "join"
    /\ stop' = TRUE
    /\ effects' = << >>
    /\ UNCHANGED << mode, targets, selected, unread, input, status, messages,
                    cfg_vars, io_vars, disk, chan, bg_vars, clock, outbox, compose_key,
                    ingest_log >>

\* Ctrl-C, in any mode
KeyCtrlC ==
    /\ ui_pc = "poll"
    /\ Quit
    /\ UNCHANGED pending_g

\* bg.join() returns
Join ==
    /\ ui_pc = "join"
    /\ bg_pc = "exited"
    /\ ui_pc' = "done"
    /\ UNCHANGED << app_vars, store_vars, cfg_vars, io_vars, stop, chan, bg_vars, clock,
                    ingest_log >>

(* --------------------------- handle_key_normal ------------------------- *)

\* a mark_selected_read that clears every counter
mark_all_read(ts, sel, unr) == << >>

\* mark_selected_read: the unread map afterwards
mark_selected_read(ts, sel, unr) ==
    LET key == selected_key_of(ts, sel)
    IN  IF IsSome(key) THEN Remove(unr, key[1]) ELSE unr

NormalKey ==
    /\ ui_pc = "poll"
    /\ mode = "Normal"

\* what a navigation key leaves alone
NavFrame ==
    /\ KeyFrame
    /\ effects' = << >>
    /\ UNCHANGED << mode, targets, input, status, messages, disk, clock, outbox,
                    compose_key >>

\* 'q'
KeyQ ==
    /\ NormalKey
    /\ Quit
    /\ pending_g' = FALSE

\* a 'j' that steps past the end of the list
KeyDownUnbounded ==
    /\ NormalKey
    /\ pending_g' = FALSE
    /\ IF targets # << >>
       THEN /\ selected' = selected + 1
            /\ unread' = mark_selected_read(targets, selected + 1, unread)
       ELSE UNCHANGED << selected, unread >>
    /\ NavFrame

\* 'j' | Down
KeyDown ==
    /\ NormalKey
    /\ pending_g' = FALSE
    /\ IF targets # << >>
       THEN LET sel == IF selected + 1 < Len(targets) - 1
                       THEN selected + 1 ELSE Len(targets) - 1
            IN  /\ selected' = sel
                /\ unread' = mark_selected_read(targets, sel, unread)
       ELSE UNCHANGED << selected, unread >>
    /\ NavFrame

\* 'k' | Up
KeyUp ==
    /\ NormalKey
    /\ pending_g' = FALSE
    /\ IF targets # << >>
       THEN LET sel == IF selected >= 1 THEN selected - 1 ELSE 0
            IN  /\ selected' = sel
                /\ unread' = mark_selected_read(targets, sel, unread)
       ELSE UNCHANGED << selected, unread >>
    /\ NavFrame

\* 'g': the second of two goes to the top
KeyG ==
    /\ NormalKey
    /\ IF pending_g
       THEN /\ selected' = 0
            /\ pending_g' = FALSE
            /\ unread' = mark_selected_read(targets, 0, unread)
       ELSE /\ pending_g' = TRUE
            /\ UNCHANGED << selected, unread >>
    /\ NavFrame

\* 'G'
KeyBigG ==
    /\ NormalKey
    /\ pending_g' = FALSE
    /\ IF targets # << >>
       THEN /\ selected' = Len(targets) - 1
            /\ unread' = mark_selected_read(targets, Len(targets) - 1, unread)
       ELSE UNCHANGED << selected, unread >>
    /\ NavFrame

\* 'i'
KeyI ==
    /\ NormalKey
    /\ pending_g' = FALSE
    /\ IF IsSome(selected_target(targets, selected))
       THEN /\ mode' = "Insert"
            /\ input' = << >>
            /\ compose_key' = selected_key_of(targets, selected)
            /\ UNCHANGED status
       ELSE /\ status' = << "no target selected; press 'a' to add a recipient" >>
            /\ UNCHANGED << mode, input, compose_key >>
    /\ effects' = << >>
    /\ KeyFrame
    /\ UNCHANGED << targets, selected, unread, messages, disk, clock, outbox >>

\* 'a'
KeyA ==
    /\ NormalKey
    /\ pending_g' = FALSE
    /\ mode' = "AddRecipient"
    /\ input' = << >>
    /\ status' = << "add recipient: type E.164 number" >>
    /\ effects' = << >>
    /\ KeyFrame
    /\ UNCHANGED << targets, selected, unread, messages, disk, clock, outbox,
                    compose_key >>

\* 'r': receive_once returned, the tool's output being out
SyncReceived(out) ==
    LET res == receive_once(out)
        msgs == res.msgs
    IN  IF ~res.ok
        THEN /\ status' = << "sync error" >>
             /\ effects' = << >>
             /\ UNCHANGED << targets, selected, unread, messages, disk >>
        ELSE IF msgs = << >>
        THEN /\ status' = << "sync: no new messages" >>
             /\ effects' = << >>
             /\ UNCHANGED << targets, selected, unread, messages, disk >>
        ELSE /\ status' = << "sync: received", Len(msgs) >>
             /\ Ingest(msgs)

\* 'r': force-sync
KeyR ==
    /\ NormalKey
    /\ pending_g' = FALSE
    /\ \/ SyncReceived(EmptyOutput) /\ clock' = clock
       \/ /\ clock < MaxCalls
          /\ clock' = clock + 1
          /\ \E raw \in RawOutputs(clock + 1) : SyncReceived(Stdout(raw))
       \/ /\ clock < MaxCalls
          /\ clock' = clock + 1
          /\ \E out \in FailedOutputs : SyncReceived(out)
    /\ KeyFrame
    /\ UNCHANGED << mode, input, outbox, compose_key >>

\* any other key
KeyOther ==
    /\ NormalKey
    /\ pending_g' = FALSE
    /\ UNCHANGED << selected, unread >>
    /\ NavFrame

(* ------------------ handle_key_insert, _add_recipient ------------------ *)

\* " a ": a message text with blanks around it
TextMsg == << 32, 97, 32 >>

\* "11111111": a number typed without its "+"
DigitsOnly == << 49, 49, 49, 49, 49, 49, 49, 49 >>

\* what the user types in a mode, up to any prefix
TypedTexts(m) == IF m = "Insert" THEN { TextMsg } ELSE { AddrNew, DigitsOnly }

IsPrefix(p, t) == Len(p) <= Len(t) /\ SubSeq(t, 1, Len(p)) = p

Chars == { ChSpace, ChPlus, 49, 97 }

CanType(m, s) == \E t \in TypedTexts(m) : IsPrefix(s, t)

\* the least length of a recipient
MinRecipientLen == 8

\* the send call for Target t
SendCall(t, body, ok) == [kind |-> t.kind, addr |-> t.addr, body |-> body, ok |-> ok]

\* What a successful send does with the stores, in the order of the
\* statements.
SendOps(t, body, save) ==
    (IF save
     THEN << [op |-> "append", key |-> t.conversation_key,
              rec |-> ScrollbackRecord(None, "out", Some(Account), body)] >>
     ELSE << >>)
    \o << [op |-> "push", key |-> t.conversation_key,
           msg |-> ChatMessage(None, "Out", Some(Account), body)] >>

\* send_res is Ok(())
SendOk(t, body) ==
    LET st == ApplyOps(Session, SendOps(t, body, save_scrollback), fs_ok)
    IN  /\ disk' = st.disk
        /\ messages' = st.messages
        /\ effects' = st.effects
        /\ status' = << "sent" >>
        /\ input' = << >>
        /\ mode' = "Normal"
        /\ compose_key' = None

\* a failed send that still puts the message into the buffer
SendErrPushes(t, body) ==
    /\ status' = << "send error" >>
    /\ effects' = << >>
    /\ messages' = Push(messages, t.conversation_key,
                        ChatMessage(None, "Out", Some(Account), body))
    /\ UNCHANGED << disk, input, mode, compose_key >>

\* send_res is Err(e)
SendErr(t, body) ==
    /\ status' = << "send error" >>
    /\ effects' = << >>
    /\ UNCHANGED << disk, messages, input, mode, compose_key >>

InsertKey ==
    /\ ui_pc = "poll"
    /\ mode = "Insert"

\* Enter
InsertEnter ==
    /\ InsertKey
    /\ LET body == trim(input)
           t == selected_target(targets, selected)
       IN  IF body = << >>
           THEN /\ status' = << "empty message; nothing sent" >>
                /\ effects' = << >>
                /\ UNCHANGED << disk, messages, input, mode, compose_key, outbox,
                                clock >>
           ELSE IF ~IsSome(t)
           THEN /\ status' = << "no target selected" >>
                /\ effects' = << >>
                /\ UNCHANGED << disk, messages, input, mode, compose_key, outbox,
                                clock >>
           ELSE /\ clock < MaxCalls
                /\ clock' = clock + 1
                /\ \E ok \in BOOLEAN :
                      /\ outbox' = Append(outbox, SendCall(t[1], body, ok))
                      /\ IF ok THEN SendOk(t[1], body) ELSE SendErr(t[1], body)
    /\ KeyFrame
    /\ UNCHANGED << targets, selected, pending_g, unread >>

\* Esc
InsertEsc ==
    /\ InsertKey
    /\ mode' = "Normal"
    /\ input' = << >>
    /\ compose_key' = None
    /\ effects' = << >>
    /\ KeyFrame
    /\ UNCHANGED << targets, selected, pending_g, unread, status, messages, disk,
                    clock, outbox >>

\* Backspace
InsertBackspace ==
    /\ InsertKey
    /\ input' = pop(input)
    /\ effects' = << >>
    /\ KeyFrame
    /\ UNCHANGED << mode, targets, selected, pending_g, unread, status, messages,
                    disk, clock, outbox, compose_key >>

\* Char(c)
InsertChar ==
    /\ InsertKey
    /\ \E c \in Chars :
          /\ CanType(mode, Append(input, c))
          /\ input' = Append(input, c)
    /\ effects' = << >>
    /\ KeyFrame
    /\ UNCHANGED << mode, targets, selected, pending_g, unread, status, messages,
                    disk, clock, outbox, compose_key >>

AddKey ==
    /\ ui_pc = "poll"
    /\ mode = "AddRecipient"

\* targets.iter().position(|t| t.addr == num)
PositionAddr(ts, num) ==
    LET hits == { i \in 1..Len(ts) : ts[i].addr = num }
    IN  IF hits = {} THEN None
        ELSE Some((CHOOSE i \in hits : \A j \in hits : i <= j) - 1)

\* a check that lets every text through
ValidRecipientAny(num) == TRUE

\* the recipient check
ValidRecipient(num) == starts_with(num, ChPlus) /\ Len(num) >= MinRecipientLen

\* Enter
AddEnter ==
    /\ AddKey
    /\ LET num == trim(input)
       IN  IF ~ValidRecipient(num)
           THEN /\ status' = << "recipient must look like +15551234567" >>
                /\ UNCHANGED << mode, targets, selected, unread, input >>
           ELSE LET key == ContactKey(num)
                    ts == IF ~HasKey(targets, key)
                          THEN sort_targets(Append(targets,
                                    Target(key, "Contact", num, num)))
                          ELSE targets
                    pos == PositionAddr(ts, num)
                    sel == IF IsSome(pos) THEN pos[1] ELSE selected
                IN  /\ targets' = ts
                    /\ selected' = sel
                    /\ unread' = mark_selected_read(ts, sel, unread)
                    /\ mode' = "Normal"
                    /\ input' = << >>
                    /\ status' = << "recipient added (press 'i' to message)" >>
    /\ effects' = << >>
    /\ KeyFrame
    /\ UNCHANGED << pending_g, messages, disk, clock, outbox, compose_key >>

\* Esc
AddEsc ==
    /\ AddKey
    /\ mode' = "Normal"
    /\ input' = << >>
    /\ status' = << "cancelled" >>
    /\ effects' = << >>
    /\ KeyFrame
    /\ UNCHANGED << targets, selected, pending_g, unread, messages, disk, clock,
                    outbox, compose_key >>

\* Backspace
AddBackspace ==
    /\ AddKey
    /\ input' = pop(input)
    /\ effects' = << >>
    /\ KeyFrame
    /\ UNCHANGED << mode, targets, selected, pending_g, unread, status, messages,
                    disk, clock, outbox, compose_key >>

\* Char(c)
AddChar ==
    /\ AddKey
    /\ \E c \in Chars :
          /\ CanType(mode, Append(input, c))
          /\ input' = Append(input, c)
    /\ effects' = << >>
    /\ KeyFrame
    /\ UNCHANGED << mode, targets, selected, pending_g, unread, status, messages,
                    disk, clock, outbox, compose_key >>

(* ------------------- callers of the scrollback module ------------------ *)

\* Longest file (in lines) the scrollback directory holds at startup.
MaxLines == 3

\* Calls of scrollback::append that succeed.
MaxAppends == 2

\* Largest limit load_tail is called with.
MaxLimit == 2

\* "a\nb\"": a body of two lines with a quote
BodyLines == << 97, 10, 98, 34 >>

StoreKeys == { ContactKey(AddrBob), GroupKey(GroupId) }

StoreRecords ==
    { ScrollbackRecord(Some(1), "in", Some(AddrBob), BodyHi),
      ScrollbackRecord(None, "out", Some(Account), BodyLines) }

\* The lines a file left by an earlier run may hold: a record, blanks, a
\* text that is no record, bytes that are not UTF-8.
FileLines ==
    { << to_string(rec) >> : rec \in StoreRecords }
    \cup { << BlankChunk >>, << TextChunk >>, << BytesChunk >> }

\* the file made of the lines ls, each with its newline
RECURSIVE JoinLines(_)
JoinLines(ls) ==
    IF ls = << >> THEN << >>
    ELSE Head(ls) \o << Newline >> \o JoinLines(Tail(ls))

\* Scrollback directories at startup: empty, or with a file for Bob's
\* conversation.
StoreDisks ==
    { << >> } \cup
    { path_for(ContactKey(AddrBob)) :> JoinLines(ls) :
        ls \in UNION { [1..n -> FileLines] : n \in 0..MaxLines } }

\* Bob is in the list, persistence is on.
StoreInit ==
    /\ InitOf(StartupListings, StoreDisks)
    /\ targets # << >>
    /\ save_scrollback

\* what a call into the scrollback module leaves alone
StoreFrame ==
    UNCHANGED << app_vars, cfg_vars, stop, chan, bg_vars, ui_pc, clock, outbox,
                 effects, compose_key, ingest_log, disk0, tool_out, parsed >>

\* the number of records appended so far
Appended ==
    LET RECURSIVE Sum(_)
        Sum(ks) == IF ks = {} THEN 0
                   ELSE LET k == CHOOSE x \in ks : TRUE
                        IN  Len(written[k]) + Sum(ks \ {k})
    IN  Sum(DOMAIN written)

\* scrollback::append(dir, key, rec) by a single caller
StoreAppend ==
    /\ Appended < MaxAppends
    /\ \A c \in DOMAIN wr : wr[c].pc = "idle"
    /\ \E key \in StoreKeys, rec \in StoreRecords :
          /\ disk' = append(disk, fs_ok, key, rec)
          /\ written' = IF fs_ok THEN Push(written, key, rec) ELSE written
    /\ loaded' = None
    /\ UNCHANGED wr
    /\ StoreFrame

\* scrollback::load_tail(dir, key, limit)
StoreLoad ==
    /\ \E key \in StoreKeys, limit \in 0..MaxLimit :
          loaded' = Some([key |-> key, limit |-> limit,
                          res |-> load_tail(disk, key, limit)])
    /\ UNCHANGED << disk, wr, written >>
    /\ StoreFrame

StoreNext == StoreAppend \/ StoreLoad

StoreSpec == StoreInit /\ [][StoreNext]_vars

\* The file of writer c.
WrPath(c) == path_for(wr[c].key)

\* what a step of a writer leaves alone
WrFrame == StoreFrame /\ UNCHANGED loaded

\* a caller enters scrollback::append(dir, key, rec)
WrCall(c) ==
    /\ wr[c].pc = "idle"
    /\ \E key \in StoreKeys, rec \in StoreRecords :
          wr' = [wr EXCEPT ![c] = [pc |-> "open", key |-> key, rec |-> rec]]
    /\ UNCHANGED << disk, written >>
    /\ WrFrame

\* OpenOptions::new().create(true).append(true).open(&path)
WrOpen(c) ==
    /\ wr[c].pc = "open"
    /\ disk' = open_append(disk, WrPath(c))
    /\ wr' = [wr EXCEPT ![c].pc = "line"]
    /\ UNCHANGED written
    /\ WrFrame

\* f.write_all(line.as_bytes())
WrLine(c) ==
    /\ wr[c].pc = "line"
    /\ disk' = write_all(disk, WrPath(c), to_string(wr[c].rec))
    /\ wr' = [wr EXCEPT ![c].pc = "nl"]
    /\ UNCHANGED written
    /\ WrFrame

\* f.write_all(b"\n"), and the call returns
WrNewline(c) ==
    /\ wr[c].pc = "nl"
    /\ disk' = write_all(disk, WrPath(c), Newline)
    /\ wr' = [wr EXCEPT ![c].pc = "done"]
    /\ written' = Push(written, wr[c].key, wr[c].rec)
    /\ WrFrame

WriterNext == \E c \in DOMAIN wr : WrCall(c) \/ WrOpen(c) \/ WrLine(c) \/ WrNewline(c)

\* Two callers of scrollback::append, each step of each in any order.
WriterInit == StoreInit /\ fs_ok = TRUE

WriterSpec == WriterInit /\ [][WriterNext]_vars

(* --------------------------- specifications ---------------------------- *)

BgNext == BgCheck \/ BgRecv \/ BgMatchOk \/ BgMatchErr \/ BgSleepDone

LoopNext == DrainReceived \/ DrainError \/ DrainEmpty \/ PollTimeout

QuitNext == KeyCtrlC \/ KeyQ \/ Join

NavNext == KeyDown \/ KeyUp \/ KeyG \/ KeyBigG \/ KeyOther

InsertNext == KeyI \/ InsertEnter \/ InsertEsc \/ InsertBackspace \/ InsertChar

AddNext == KeyA \/ AddEnter \/ AddEsc \/ AddBackspace \/ AddChar

\* the whole program
Next == BgNext \/ LoopNext \/ QuitNext \/ NavNext \/ KeyR \/ InsertNext \/ AddNext

Spec == Init /\ [][Next]_vars

\* The ingestion thread, the channel, the consumer's drain and the
\* shutdown; the user only quits.
PipeNext == BgNext \/ LoopNext \/ QuitNext

PipeSpec == Init /\ [][PipeNext]_vars

\* The same with one startup configuration and a scheduler that lets the
\* ingestion thread run: every enabled step of it is taken in the end, a
\* receive call returns, a sleep ends, and join returns once the thread
\* has exited.
FairInit == Init /\ targets # << >> /\ save_scrollback /\ fs_ok

FairPipeSpec ==
    /\ FairInit
    /\ [][PipeNext]_vars
    /\ WF_vars(BgCheck)
    /\ WF_vars(BgRecv)
    /\ WF_vars(BgMatchOk \/ BgMatchErr)
    /\ WF_vars(BgSleepDone)
    /\ WF_vars(Join)

\* The session while the ingestion thread runs: navigation and composing.
SessionNext == BgNext \/ LoopNext \/ NavNext \/ InsertNext

SessionSpec == Init /\ [][SessionNext]_vars

\* Composing and sending, the messages coming in by force-sync.
SendNext == DrainEmpty \/ PollTimeout \/ KeyR \/ KeyDown \/ KeyUp \/ InsertNext

SendSpec == Init /\ [][SendNext]_vars

\* Navigation, the messages coming in by force-sync.
NavSpecNext == DrainEmpty \/ PollTimeout \/ KeyR \/ NavNext

NavSpec == Init /\ [][NavSpecNext]_vars

\* The ingestion thread and the consumer's drain while the user enters
\* the Insert and AddRecipient modes and types a message.
ModeNext == BgNext \/ LoopNext \/ KeyI \/ InsertChar \/ KeyA

ModeSpec == FairInit /\ [][ModeNext]_vars

\* Persistence is off: the scrollback files play no part in the Target
\* list and the selection.
AddInit == InitFrom(AddListings) /\ ~save_scrollback

\* Navigation and adding recipients, the messages coming in by force-sync.
AddSpecNext ==
    DrainEmpty \/ PollTimeout \/ KeyR \/ KeyDown \/ KeyUp \/ KeyG \/ KeyBigG
    \/ KeyA \/ AddChar \/ AddEnter

AddSpec == AddInit /\ [][AddSpecNext]_vars

\* The AddRecipient mode alone, the messages coming in by force-sync.
RecipientNext == DrainEmpty \/ PollTimeout \/ KeyR \/ AddNext

RecipientSpec == AddInit /\ [][RecipientNext]_vars

\* the pipeline, and force-sync as the only key
SyncNext == BgNext \/ LoopNext \/ KeyR

SyncSpec == Init /\ [][SyncNext]_vars

(* ----------------------- the startup load on its own ------------------ *)

\* Scrollback directories at startup with a one-line file for the group
\* "#x" and one for Bob.
LoadDisks ==
    { (path_for(GroupKey(AddrNew)) :> JoinLines(<< g >>))
        @@ (path_for(ContactKey(AddrBob)) :> JoinLines(<< b >>)) :
        g \in FileLines, b \in FileLines }

\* The group "#x" and Bob are in the list, persistence is on.
LoadInit ==
    /\ InitOf(AddListings, LoadDisks)
    /\ Len(targets) = 2
    /\ save_scrollback

LoadSpec == LoadInit /\ [][StoreNext]_vars

\* Scrollback directories at startup: empty, or with a file for Bob of one
\* line, with its newline or (an append of an earlier run was cut short)
\* without it.
TornDisks ==
    { << >> }
    \cup { path_for(ContactKey(AddrBob)) :> JoinLines(<< l >>) : l \in FileLines }
    \cup { path_for(ContactKey(AddrBob)) :> l : l \in FileLines }

\* Bob is in the list, persistence is on and the appends succeed.
TailInit ==
    /\ InitOf(StartupListings, TornDisks)
    /\ targets # << >>
    /\ save_scrollback
    /\ fs_ok

\* startup load, then force-syncs and sends
TailSpec == TailInit /\ [][SendNext]_vars

(* ------------------------ the adapter on its own ----------------------- *)

\* the lines of an output
MaxOut == 2

\* "H": a group id under the alternate spelling
GroupIdAlt == << 72 >>

\* the dataMessage objects with the message "hi": the group id absent,
\* under one of the two spellings, or under both
TextDataMessages ==
    { [message |-> Some(BodyHi), groupId |-> g, group_id |-> h] :
        g \in { None, Some(GroupId) },
        h \in { None, Some(GroupIdAlt) } }

\* no dataMessage, one without a message, one with the message ""
NoTextDataMessages ==
    { None, Some(DataMessage(None, None)), Some(DataMessage(Some(<< >>), Some(GroupId))) }

AdapterEnvelope(stamp, n, s, dm) ==
    [obj |-> TRUE,
     envelope |-> Some([timestamp |-> Some(stamp), sourceNumber |-> n,
                        source |-> s, dataMessage |-> dm]),
     timestamp |-> None,
     dataMessage |-> None]

\* the items stamped stamp: a text with its sender under sourceNumber,
\* under source or absent; an item with no text; an item with no envelope
\* and the fields at the top level; a value that is not an object
AdapterItems(stamp) ==
    { AdapterEnvelope(stamp, ns[1], ns[2], Some(d)) :
        ns \in { << None, None >>, << Some(AddrNew), None >>, << None, Some(AddrBob) >> },
        d \in TextDataMessages }
    \cup { AdapterEnvelope(stamp, Some(AddrNew), None, dm) : dm \in NoTextDataMessages }
    \cup { [obj |-> TRUE, envelope |-> None, timestamp |-> Some(stamp),
            dataMessage |-> Some(DataMessage(Some(BodyHi), Some(GroupId)))],
           [obj |-> FALSE] }

\* the lines the tool may print as line i: an item, an array of two items,
\* the first or the last line of an item printed over two lines, a blank
\* line, text that is not JSON
AdapterLines(i) ==
    { ValueLine(it) : it \in AdapterItems(10 * i) }
    \cup { ValueLine(Array(<< Item("receipt", 10 * i + 1), Item("bob", 10 * i + 2) >>)),
           HeadLine(Item("new", 10 * i)), TailLine, BlankLine, GarbageLine }

RECURSIVE AdapterStdouts(_)
AdapterStdouts(n) ==
    IF n = 0 THEN { << >> }
    ELSE { Append(ls, l) : ls \in AdapterStdouts(n - 1), l \in AdapterLines(n) }

\* what the tool may leave behind
AdapterOutputs ==
    { ToolOutput(FALSE, << GarbageLine >>) }
    \cup { ToolOutput(TRUE, ls) : ls \in UNION { AdapterStdouts(n) : n \in 0..MaxOut } }

AdapterInit ==
    /\ InitBody(StartupListings, InitialDisks)
    /\ targets # << >>
    /\ save_scrollback
    /\ fs_ok
    /\ tool_out \in AdapterOutputs

\* signal2.receive_once(&account, 1) returns, the tool having left tool_out
AdapterRecv ==
    /\ bg_pc = "recv"
    /\ parsed = None
    /\ bg_pc' = "match"
    /\ BgReturned(tool_out)
    /\ parsed' = Some(receive_once(tool_out))
    /\ UNCHANGED << app_vars, store_vars, cfg_vars, loaded, wr, disk0, written,
                    tool_out, stop, chan, ui_pc, clock, ingest_log, after_stop >>

AdapterNext ==
    \/ BgCheck \/ AdapterRecv \/ BgMatchOk \/ BgMatchErr \/ BgSleepDone
    \/ DrainReceived \/ DrainError

AdapterSpec == AdapterInit /\ [][AdapterNext]_vars

(* ------------------------------- claims -------------------------------- *)

Last(s) == s[Len(s)]

\* a step in which a send call was made and failed
FailedSend == outbox' # outbox /\ ~Last(outbox').ok

\* a step in which a send call was made and succeeded
SentOk == outbox' # outbox /\ Last(outbox').ok

\* a step in which the consumer took a batch off the channel and ingested it
IngestedBatch == ingest_log' # ingest_log

\* C1: a send whose external call fails leaves every message buffer and
\* every scrollback file as they were, and with them the Target list, the
\* selection, the unread counters, the mode and the input; the status says
\* so, and exactly one call was made.
C1_FailedSendChangesOnlyStatus ==
    [][FailedSend =>
          /\ messages' = messages
          /\ disk' = disk
          /\ targets' = targets
          /\ selected' = selected
          /\ unread' = unread
          /\ mode' = mode
          /\ input' = input
          /\ status' = << "send error" >>
          /\ outbox' = Append(outbox, Last(outbox'))]_vars

\* a send has just failed while buffers and scrollback files hold messages
C1_Witness ==
    /\ outbox # << >>
    /\ ~Last(outbox).ok
    /\ status = << "send error" >>
    /\ mode = "Insert"
    /\ trim(input) # << >>
    /\ save_scrollback /\ fs_ok
    /\ DOMAIN disk # {}
    /\ DOMAIN messages # {}

\* C2: the selected conversation has no unread count.
C2_SelectedHasNoUnread ==
    LET key == selected_key_of(targets, selected)
    IN  IsSome(key) => UnreadOf(unread, key[1]) = 0

\* C3: a message confirmed with Enter in Insert mode is sent to, and
\* recorded for, the conversation that was selected when the mode was
\* entered.
C3_SendGoesToComposedConversation ==
    [][(mode = "Insert" /\ SentOk) =>
          /\ IsSome(compose_key)
          /\ Last(outbox').addr = compose_key[1].id
          /\ (Last(outbox').kind = "Group") = (compose_key[1].ns = "group")
          /\ \A i \in 1..Len(effects') : effects'[i].key = compose_key[1]]_vars

\* C4: ingesting a batch while the list is non-empty does not change which
\* conversation is selected.
C4_IngestKeepsSelectedConversation ==
    [][(IngestedBatch /\ targets # << >>) =>
          selected_key_of(targets', selected') = selected_key_of(targets, selected)]_vars

\* the batches waiting in the channel, oldest first
RECURSIVE BatchesOf(_)
BatchesOf(ch) ==
    IF ch = << >> THEN << >>
    ELSE (IF Head(ch).type = "Received" THEN << Head(ch).msgs >> ELSE << >>)
         \o BatchesOf(Tail(ch))

\* the batch of a receive call that has returned and is not yet sent
PendingBatch ==
    IF bg_pc = "match" /\ bg_res.ok /\ bg_res.msgs # << >>
    THEN << bg_res.msgs >>
    ELSE << >>

\* C5: when run_tui is through (the thread joined), every non-empty batch
\* a receive call of the ingestion thread returned has been ingested.
C5_EveryBatchIngestedAtExit == ui_pc = "done" => ingest_log = bg_log

\* C6: with stop set, a thread at the loop test exits and starts no
\* iteration; after stop was set it completes at most one receive call and
\* one sleep; and once stop is set the thread exits and the join returns.
C6_StopEndsThread ==
    /\ [][(stop /\ bg_pc = "check") => bg_pc' \in {"check", "exited"}]_vars
    /\ [](after_stop.recv <= 1 /\ after_stop.sleep <= 1)
    /\ (stop ~> (bg_pc = "exited" /\ ui_pc = "done"))

\* the thread has exited after one more failed receive call and its sleep,
\* and the join has returned
C6_Witness ==
    /\ stop
    /\ bg_pc = "exited"
    /\ ui_pc = "done"
    /\ after_stop = [recv |-> 1, sleep |-> 1]

\* C7: a failed receive call puts exactly one error event on the channel
\* and leaves the thread sleeping; the thread exits only when stop is set;
\* and after the sleep it issues another receive call unless stop is set.
C7_FailureNeverEndsThread ==
    /\ [][(bg_pc = "match" /\ ~bg_res.ok /\ bg_pc' # "match") =>
             (chan' = Append(chan, ErrorEvent) /\ bg_pc' = "sleep")]_vars
    /\ [](bg_pc = "exited" => stop)
    /\ ((bg_pc = "sleep") ~> (bg_pc = "recv" \/ stop))

\* two receive calls in a row have failed, both events wait in the
\* channel, and the thread is in its next receive call
C7_Witness ==
    /\ chan = << ErrorEvent, ErrorEvent >>
    /\ bg_log = << >>
    /\ clock = 2
    /\ bg_pc = "recv"
    /\ ~stop

\* C8: the batches the ingestion thread's receive calls returned, in
\* completion order, are the batches the consumer has taken off the
\* channel, then those waiting in it, then the one about to be sent.
C8_BatchesInReceiveOrder ==
    bg_log = ingest_log \o BatchesOf(chan) \o PendingBatch

\* two batches have gone through the channel
C8_Witness ==
    /\ Len(ingest_log) = 2
    /\ ingest_log[1] # ingest_log[2]

\* the record ingest_incoming appends for ChatMessage msg
RecordOf(msg) == ScrollbackRecord(msg.ts_ms, "in", msg.who, msg.body)

\* C9: with persistence enabled, the handler that ran last appended the
\* record of each inbound message right before it pushed the message onto
\* the buffer, and (the filesystem permitting) every inbound message in a
\* buffer has its line in the conversation's file.
C9_AppendBeforeVisible ==
    /\ save_scrollback =>
          \A i \in 1..Len(effects) :
              (effects[i].op = "push" /\ effects[i].msg.dir = "In") =>
                  /\ i > 1
                  /\ effects[i - 1].op = "append"
                  /\ effects[i - 1].key = effects[i].key
                  /\ effects[i - 1].rec = RecordOf(effects[i].msg)
    /\ (save_scrollback /\ fs_ok) =>
          \A key \in DOMAIN messages :
              \A i \in 1..Len(messages[key]) :
                  messages[key][i].dir = "In" =>
                      /\ FileExists(disk, path_for(key))
                      /\ \E j \in 1..Len(lines(disk[path_for(key)])) :
                            lines(disk[path_for(key)])[j] =
                                << to_string(RecordOf(messages[key][i])) >>

\* a batch of two messages has just been ingested with persistence enabled
C9_Witness ==
    /\ save_scrollback
    /\ Len(effects) = 4
    /\ effects[3].op = "append"
    /\ effects[4].op = "push"
    /\ effects[4].msg.dir = "In"

\* C10: after a batch is ingested, each conversation key of the batch that
\* was not in the Target list has exactly one Target.
C10_OneTargetPerNewKey ==
    [][IngestedBatch =>
          \A i \in 1..Len(Last(ingest_log')) :
              LET key == Last(ingest_log')[i].conversation_key
              IN  ~HasKey(targets, key) =>
                      Cardinality({ j \in 1..Len(targets') :
                                      targets'[j].conversation_key = key }) = 1]_vars

\* the messages of a batch for one conversation key, as ingest_incoming
\* pushes them
RECURSIVE BatchFor(_, _)
BatchFor(msgs, key) ==
    IF msgs = << >> THEN << >>
    ELSE (IF Head(msgs).conversation_key = key
          THEN << ChatMessage(Head(msgs).timestamp_ms, "In", Head(msgs).source,
                              Head(msgs).body) >>
          ELSE << >>)
         \o BatchFor(Tail(msgs), key)

\* C11: every message of an ingested batch is appended to the buffer of
\* its conversation key, in batch order, whatever the key.
C11_EveryMessageBuffered ==
    [][IngestedBatch =>
          \A i \in 1..Len(Last(ingest_log')) :
              LET key == Last(ingest_log')[i].conversation_key
              IN  BufferOf(messages', key) =
                      BufferOf(messages, key) \o BatchFor(Last(ingest_log'), key)]_vars

\* a navigation key that moves or re-applies the selection
NavSelects == KeyDown \/ KeyUp \/ KeyBigG \/ (KeyG /\ pending_g)

\* C12: a navigation key that puts the selection on a conversation removes
\* that conversation's unread entry and leaves every other counter, the
\* Target list, the buffers and the files as they were.
C12_NavigationClearsOnlySelected ==
    [][(NavSelects /\ targets # << >>) =>
          LET key == selected_key_of(targets', selected')
          IN  /\ IsSome(key)
              /\ UnreadOf(unread', key[1]) = 0
              /\ \A k \in (DOMAIN unread) \ {key[1]} :
                    k \in DOMAIN unread' /\ unread'[k] = unread[k]
              /\ DOMAIN unread' \subseteq DOMAIN unread
              /\ targets' = targets
              /\ messages' = messages
              /\ disk' = disk]_vars

\* two conversations have had unread messages; the counter of the one now
\* selected was cleared by moving onto it, the other's is still there
C12_Witness ==
    /\ Len(targets) = 2
    /\ selected = 1
    /\ targets[1].conversation_key \in DOMAIN unread
    /\ targets[2].conversation_key \in DOMAIN messages
    /\ targets[2].conversation_key = GroupKey(GroupId)
    /\ targets[2].conversation_key \notin DOMAIN unread

\* a step in which the consumer takes an event off the channel
ConsumesEvent == Len(chan') < Len(chan)

\* C13: consuming an ingestion event, a batch or an error, leaves the mode
\* and the input buffer as they were.
C13_IngestionKeepsModeAndInput ==
    [][ConsumesEvent => (mode' = mode /\ input' = input)]_vars

\* a batch and an error event have been consumed while the user was
\* typing a message
C13_Witness ==
    /\ mode = "Insert"
    /\ input = << ChSpace, 97 >>
    /\ ingest_log # << >>
    /\ status = << "receive error" >>
    /\ chan = << >>

\* C14: while the Target list is non-empty the selection index is within
\* 0 .. len-1.
C14_SelectedInRange ==
    targets # << >> => (0 <= selected /\ selected <= Len(targets) - 1)

\* a recipient was added to a list grown by ingest and the last Target is
\* selected
C14_Witness ==
    /\ Len(targets) = 3
    /\ selected = 2
    /\ HasKey(targets, ContactKey(AddrNew))
    /\ status = << "recipient added (press 'i' to message)" >>

\* a text that reads like a recipient: a leading "+" and 8 bytes or more
LooksValid(num) == Len(num) >= 8 /\ num[1] = 43

\* C15: after a confirmed add-recipient for address A the list holds
\* exactly one Target with the key contact:A and that Target is selected.
C15_AddedRecipientIsSelected ==
    [][(AddEnter /\ LooksValid(trim(input))) =>
          LET key == ContactKey(trim(input))
          IN  /\ Cardinality({ j \in 1..Len(targets') :
                                 targets'[j].conversation_key = key }) = 1
              /\ selected_key_of(targets', selected') = Some(key)]_vars

\* C16: Enter on a text that does not read like a recipient changes the
\* status and nothing else; Enter on "+1111111" is accepted, the contact is
\* in the list and the mode is Normal again.
C16_RejectedRecipientChangesOnlyStatus ==
    /\ [][(AddEnter /\ ~LooksValid(trim(input))) =>
             /\ status' = << "recipient must look like +15551234567" >>
             /\ UNCHANGED << targets, selected, unread, messages, mode, input,
                             disk, pending_g >>]_vars
    /\ [][(AddEnter /\ trim(input) = AddrNew) =>
             /\ mode' = "Normal"
             /\ HasKey(targets', ContactKey(AddrNew))]_vars

\* "11111111" (8 bytes, no "+") has just been rejected while the list and
\* the buffers hold ingested conversations
C16_Witness ==
    /\ mode = "AddRecipient"
    /\ input = DigitsOnly
    /\ status = << "recipient must look like +15551234567" >>
    /\ DOMAIN unread # {}
    /\ DOMAIN messages # {}

\* the last n elements of s, all of s when it has fewer
LastN(s, n) == IF Len(s) > n THEN SubSeq(s, Len(s) - n + 1, Len(s)) ELSE s

\* the content of a file, nothing when it is missing
FileOf(d, path) == IF FileExists(d, path) THEN d[path] ELSE << >>

\* C17: for a conversation whose file was missing at startup, load_tail
\* with limit N succeeds and returns the last min(N, count) records
\* appended to the key, in the order they were appended.
C17_LoadTailReturnsLastAppended ==
    IsSome(loaded) =>
        LET l == loaded[1]
        IN  ~FileExists(disk0, path_for(l.key)) =>
                l.res = [ok |-> TRUE,
                         recs |-> LastN(BufferOf(written, l.key), l.limit)]

\* two records were appended to a key that had no file, the second with a
\* body of two lines, and load_tail with limit 1 has returned the second
C17_Witness ==
    /\ IsSome(loaded)
    /\ loaded[1].limit = 1
    /\ ~FileExists(disk0, path_for(loaded[1].key))
    /\ Len(BufferOf(written, loaded[1].key)) = 2
    /\ written[loaded[1].key][1] # written[loaded[1].key][2]
    /\ loaded[1].res.recs = << written[loaded[1].key][2] >>
    /\ loaded[1].res.recs[1].body = BodyLines

NotBlank(chunk) == chunk # BlankChunk

\* the records of the lines that hold one record and blanks, in file order
RECURSIVE ValidRecords(_)
ValidRecords(ls) ==
    IF ls = << >> THEN << >>
    ELSE LET text == SelectSeq(Head(ls), NotBlank)
         IN  (IF Len(text) = 1 /\ text[1][1] = "json" /\ Len(Head(ls)) <= 3
                 /\ (Len(Head(ls)) = 3 => Head(ls)[2] = text[1])
              THEN << [ts_ms |-> text[1][2], dir |-> text[1][3],
                       who |-> text[1][4], body |-> unescape(text[1][5])] >>
              ELSE << >>)
             \o ValidRecords(Tail(ls))

\* C18: load_tail on a file of records, blank lines and lines that are no
\* record succeeds and returns the records of the valid lines, in file
\* order, tail-limited.
C18_LoadTailSkipsInvalidLines ==
    IsSome(loaded) =>
        LET l == loaded[1]
        IN  l.res = [ok |-> TRUE,
                     recs |-> LastN(ValidRecords(lines(FileOf(disk, path_for(l.key)))),
                                    l.limit)]

\* every caller of scrollback::append has returned
AllDone == \A c \in DOMAIN wr : wr[c].pc = "done"

\* C19: when two callers of scrollback::append have returned, each file
\* holds the lines it held before followed by one complete line per
\* record appended to it.
C19_ConcurrentAppendsKeepLinesWhole ==
    AllDone =>
        \A key \in StoreKeys :
            LET old == lines(FileOf(disk0, path_for(key)))
                new == lines(FileOf(disk, path_for(key)))
                mine == { c \in DOMAIN wr : wr[c].key = key }
            IN  /\ Len(new) = Len(old) + Cardinality(mine)
                /\ SubSeq(new, 1, Len(old)) = old
                /\ \A j \in (Len(old) + 1)..Len(new) :
                      \E c \in mine : new[j] = << to_string(wr[c].rec) >>
                /\ \A c \in mine :
                      \E j \in (Len(old) + 1)..Len(new) :
                          new[j] = << to_string(wr[c].rec) >>

\* C20: no call into the scrollback module removes or changes what a file
\* holds, and a successful append of a record to a key puts the record's
\* text, on one line, and a newline behind what the key's file held and
\* touches no other file.
C20_AppendOnlyExtends ==
    /\ [][\A path \in DOMAIN disk :
             FileExists(disk', path) /\ IsPrefix(disk[path], disk'[path])]_vars
    /\ [][written' # written =>
             \E key \in DOMAIN written' :
                 LET rec == Last(written'[key])
                     path == path_for(key)
                 IN  /\ written' = Push(written, key, rec)
                     /\ ~HasRawNewline(to_string(rec))
                     /\ disk'[path] = FileOf(disk, path) \o << to_string(rec), Newline >>
                     /\ DOMAIN disk' = (DOMAIN disk) \cup {path}
                     /\ \A p \in (DOMAIN disk) \ {path} : disk'[p] = disk[p]]_vars

\* a record was appended to the file an earlier run left, behind a line
\* that is not UTF-8, and a file was created for the other key
C20_Witness ==
    /\ FileExists(disk0, path_for(ContactKey(AddrBob)))
    /\ disk0[path_for(ContactKey(AddrBob))] = << BytesChunk, Newline >>
    /\ Len(disk[path_for(ContactKey(AddrBob))]) = 4
    /\ FileExists(disk, path_for(GroupKey(GroupId)))

\* the dataMessage object of an item: the envelope's, else the top-level one
DataOf(it) ==
    IF it.envelope # None /\ it.envelope[1].dataMessage # None
    THEN it.envelope[1].dataMessage
    ELSE it.dataMessage

\* the group id of an item: groupInfo.groupId, else groupInfo.group_id
GroupOf(it) ==
    IF DataOf(it) = None THEN None
    ELSE IF DataOf(it)[1].groupId # None THEN DataOf(it)[1].groupId
    ELSE DataOf(it)[1].group_id

\* the sender of an item
SenderOf(it) ==
    IF it.envelope = None THEN None
    ELSE IF it.envelope[1].sourceNumber # None THEN it.envelope[1].sourceNumber
    ELSE it.envelope[1].source

\* the timestamp of an item
StampOf(it) ==
    IF it.envelope # None /\ it.envelope[1].timestamp # None
    THEN it.envelope[1].timestamp
    ELSE it.timestamp

\* the message text of an item, empty when it has none
BodyOf(it) ==
    IF ~it.obj \/ DataOf(it) = None \/ DataOf(it)[1].message = None THEN << >>
    ELSE DataOf(it)[1].message[1]

\* the lines of an output that are not blank
TextLines(out) == SelectSeq(out.stdout, LAMBDA l : l # BlankLine)

\* the output is one JSON value
OneJsonValue(out) ==
    \/ Len(TextLines(out)) = 1 /\ TextLines(out)[1][1] = "value"
    \/ /\ Len(TextLines(out)) = 2
       /\ TextLines(out)[1][1] = "head"
       /\ TextLines(out)[2] = TailLine

\* the items of an output every line of which is a JSON value, or which
\* is one JSON value, in the order of the output
ItemsOf(out) ==
    LET ls == TextLines(out)
    IN  IF OneJsonValue(out)
        THEN (IF IsArray(ls[1][2]) THEN ls[1][2].array ELSE << ls[1][2] >>)
        ELSE [i \in 1..Len(ls) |-> ls[i][2]]

\* the objects that stand anywhere in an output
ObjectsIn(out) ==
    LET vs == { out.stdout[i][2] :
                  i \in { j \in 1..Len(out.stdout) : Len(out.stdout[j]) = 2 } }
    IN  { v \in vs : v.obj }
        \cup UNION { { v.array[k] : k \in 1..Len(v.array) } : v \in { w \in vs : IsArray(w) } }

\* C21: every message the adapter returns has the key group:<id> when its
\* item has a group id (under either spelling), sender or not; else the key
\* contact:<address> when the item has a sender; else the sentinel key.
C21_GroupBeforeSender ==
    IsSome(parsed) =>
        \A k \in 1..Len(parsed[1].msgs) :
            LET m == parsed[1].msgs[k]
                it == CHOOSE o \in ObjectsIn(tool_out) : StampOf(o) = m.timestamp_ms
            IN  /\ \E o \in ObjectsIn(tool_out) : StampOf(o) = m.timestamp_ms
                /\ GroupOf(it) # None =>
                       m.conversation_key = [ns |-> "group", id |-> GroupOf(it)[1]]
                /\ GroupOf(it) = None /\ SenderOf(it) # None =>
                       m.conversation_key = [ns |-> "contact", id |-> SenderOf(it)[1]]
                /\ GroupOf(it) = None /\ SenderOf(it) = None =>
                       m.conversation_key = [ns |-> "unknown", id |-> StrUnknown]

\* a call returned a text from a sender with no group, keyed by the sender,
\* and one from a sender in a group named under the alternate spelling,
\* keyed by the group
C21_Witness ==
    /\ IsSome(parsed)
    /\ Len(parsed[1].msgs) = 2
    /\ parsed[1].msgs[1].source = Some(AddrNew)
    /\ parsed[1].msgs[1].conversation_key = ContactKey(AddrNew)
    /\ parsed[1].msgs[2].source = Some(AddrNew)
    /\ parsed[1].msgs[2].conversation_key = GroupKey(GroupIdAlt)

\* C22: when the tool's output is not one JSON value and one of its
\* non-empty lines is not JSON, the receive call fails and hands over no
\* message of that output; the thread turns the failure into one error
\* event and lives on, and the session gets no message.
C22_BadLineFailsWholeCall ==
    ( /\ IsSome(parsed)
      /\ tool_out.success
      /\ ~OneJsonValue(tool_out)
      /\ \E i \in 1..Len(TextLines(tool_out)) : TextLines(tool_out)[i][1] # "value" )
    => /\ ~parsed[1].ok
       /\ parsed[1].msgs = << >>
       /\ bg_log = << >>
       /\ ingest_log = << >>
       /\ \A i \in 1..Len(chan) : chan[i] = ErrorEvent
       /\ messages = << >> /\ unread = << >> /\ disk = << >>
       /\ bg_pc # "exited"
       /\ bg_pc # "match" =>
              \/ chan = << ErrorEvent >> /\ status # << "receive error" >>
              \/ chan = << >> /\ status = << "receive error" >>

\* the output was a text item on one line and text that is not JSON on
\* the next; the error event has been consumed
C22_Witness ==
    /\ IsSome(parsed)
    /\ Len(tool_out.stdout) = 2
    /\ tool_out.stdout[1][1] = "value"
    /\ BodyOf(tool_out.stdout[1][2]) = BodyHi
    /\ tool_out.stdout[2] = GarbageLine
    /\ ~parsed[1].ok
    /\ status = << "receive error" >>
    /\ chan = << >>
    /\ messages = << >>

\* C23: the adapter returns exactly the items with a non-empty body, in
\* the order of the output, so no message has an empty body; and every
\* buffered message, unread counter, Target added and scrollback file
\* belongs to one of those.
C23_EmptyBodiesNeverSurface ==
    (IsSome(parsed) /\ parsed[1].ok) =>
        LET kept == SelectSeq(ItemsOf(tool_out), LAMBDA it : BodyOf(it) # << >>)
            msgs == parsed[1].msgs
            keys == { msgs[k].conversation_key : k \in 1..Len(msgs) }
        IN  /\ Len(msgs) = Len(kept)
            /\ \A k \in 1..Len(msgs) :
                  /\ msgs[k].body # << >>
                  /\ msgs[k].body = BodyOf(kept[k])
                  /\ msgs[k].timestamp_ms = StampOf(kept[k])
            /\ \A key \in DOMAIN messages :
                  /\ key \in keys
                  /\ messages[key] = BatchFor(msgs, key)
            /\ \A key \in DOMAIN unread : key \in keys
            /\ \A i \in 1..Len(targets) :
                  \/ targets[i].conversation_key \in keys
                  \/ targets[i].conversation_key = ContactKey(AddrBob)
            /\ \A path \in DOMAIN disk : \E key \in keys : path = path_for(key)
            /\ \A i \in 1..Len(chan) :
                  chan[i].type = "Received" => chan[i].msgs = msgs /\ msgs # << >>

\* an output of an item with the message "" and a text item was ingested:
\* one message, one Target more, one file
C23_Witness ==
    /\ IsSome(parsed)
    /\ Len(tool_out.stdout) = 2
    /\ tool_out.stdout[1] =
          ValueLine(AdapterEnvelope(10, Some(AddrNew), None,
                                    Some(DataMessage(Some(<< >>), Some(GroupId)))))
    /\ tool_out.stdout[2][1] = "value"
    /\ BodyOf(tool_out.stdout[2][2]) = BodyHi
    /\ Len(parsed[1].msgs) = 1
    /\ ingest_log = << parsed[1].msgs >>
    /\ Len(targets) = 2
    /\ Cardinality(DOMAIN messages) = 1
    /\ Cardinality(DOMAIN disk) = 1

\* the keys of the messages of a batch that name a contact or a group
NamedKeys(msgs) ==
    { msgs[k].conversation_key : k \in 1..Len(msgs) } \ { SentinelKey }

\* C24: with persistence enabled and the appends failing, ingesting a
\* batch writes nothing and still pushes every message of the batch onto
\* its buffer, in order, and counts each one as unread unless its
\* conversation was the selected one.
C24_FailedAppendKeepsMessage ==
    [][(IngestedBatch /\ save_scrollback /\ ~fs_ok) =>
          LET msgs == Last(ingest_log')
          IN  /\ disk' = disk
              /\ \A key \in NamedKeys(msgs) :
                    /\ BufferOf(messages', key)
                          = BufferOf(messages, key) \o BatchFor(msgs, key)
                    /\ UnreadOf(unread', key)
                          = IF selected_key_of(targets, selected) = Some(key)
                            THEN UnreadOf(unread, key)
                            ELSE UnreadOf(unread, key) + Len(BatchFor(msgs, key))]_vars

\* with the appends failing, a batch of two messages is in the buffer of
\* a conversation that is not selected and both count as unread; there is
\* no file
C24_Witness ==
    /\ save_scrollback /\ ~fs_ok
    /\ ingest_log # << >>
    /\ Len(Last(ingest_log)) = 2
    /\ disk = << >>
    /\ \E key \in DOMAIN messages :
          /\ messages[key] = BatchFor(Last(ingest_log), key)
          /\ Len(messages[key]) = 2
          /\ UnreadOf(unread, key) = 2

\* C25: after startup the buffer of every Target holds the records the
\* tail load of its file returns, and nothing if that load fails: a load
\* that fails costs the other conversations nothing.
C25_LoadFailureIsLocal ==
    \A i \in 1..Len(targets) :
        LET key == targets[i].conversation_key
            res == load_tail(disk0, key, LoadLimit)
        IN  BufferOf(messages, key)
              = IF res.ok
                THEN [j \in 1..Len(res.recs) |-> LoadedMessage(res.recs[j])]
                ELSE << >>

\* C26: in every state between two operations the Target list is in
\* case-insensitive display order: no Target stands before one whose
\* lower-cased display name is smaller.
C26_TargetsSorted ==
    \A i, j \in 1..Len(targets) :
        i < j => ~StrLess(to_lowercase(targets[j].display),
                          to_lowercase(targets[i].display))

\* a group came in with a batch and a recipient was added: both were
\* appended behind Bob and stand on either side of him
C26_Witness ==
    /\ Len(targets) = 3
    /\ targets[1].conversation_key = ContactKey(AddrNew)
    /\ targets[2].conversation_key = ContactKey(AddrBob)
    /\ targets[3].conversation_key = GroupKey(GroupId)
    /\ status = << "recipient added (press 'i' to message)" >>

\* C29: no two Targets of the list have the same conversation key.
C29_KeysAreUnique ==
    \A i, j \in 1..Len(targets) :
        targets[i].conversation_key = targets[j].conversation_key => i = j

\* a number that wrote in was then confirmed as a recipient, and a
\* conversation in the list got a batch: the list has one Target each
C29_Witness ==
    /\ status = << "recipient added (press 'i' to message)" >>
    /\ Len(BufferOf(messages, ContactKey(AddrNew))) >= 1
    /\ Len(BufferOf(messages, ContactKey(AddrBob))) >= 1
    /\ Len(targets) = 2

\* C27: a step of the ingestion thread (the thread moves on in its loop)
\* leaves the Target list, the selection, the unread counters, the
\* buffers, the mode, the input, the status and the scrollback files as
\* they were.
C27_ThreadLeavesSessionAlone ==
    [][bg_pc' # bg_pc =>
          UNCHANGED << targets, selected, unread, messages, mode, input, status,
                       pending_g, disk >>]_vars

\* the thread has received two batches and queued both; the session has
\* seen neither
C27_Witness ==
    /\ Len(bg_log) = 2
    /\ BatchesOf(chan) = bg_log
    /\ ingest_log = << >>
    /\ messages = << >>
    /\ unread = << >>
    /\ bg_pc = "check"

\* C28: a key handler (force-sync) appends nothing to the buffer of a
\* conversation while a batch that the thread received earlier and that
\* holds a message of that conversation is waiting in the channel: each
\* buffer lists its messages in the order the receive calls completed.
C28_SyncWaitsForQueuedBatches ==
    [][ui_pc = "poll" =>
          \A i \in 1..Len(BatchesOf(chan)) :
              \A k \in 1..Len(BatchesOf(chan)[i]) :
                  LET key == BatchesOf(chan)[i][k].conversation_key
                  IN  BufferOf(messages', key) = BufferOf(messages, key)]_vars

\* the record a buffered message stands for
RecordOfMessage(msg) ==
    [ts_ms |-> msg.ts_ms, dir |-> IF msg.dir = "Out" THEN "out" ELSE "in",
     who |-> msg.who, body |-> msg.body]

\* C30: with persistence enabled and the appends succeeding, the buffer of
\* every conversation is a suffix of the valid records of its scrollback
\* file: same direction, sender, timestamp and body, in the same order.
C30_BufferIsSuffixOfFile ==
    (save_scrollback /\ fs_ok) =>
        \A key \in DOMAIN messages :
            LET recs == ValidRecords(lines(FileOf(disk, path_for(key))))
                buf == [j \in 1..Len(messages[key]) |-> RecordOfMessage(messages[key][j])]
            IN  /\ Len(buf) <= Len(recs)
                /\ buf = LastN(recs, Len(buf))

=============================================================================
